---- MODULE Spec2Model ----
(***************************************************************************)
(* Model of bladerunner's progressbar.py: the ProgressBar class            *)
(* (__init__, setup, update, clear), the rounding helper rounded() and     *)
(* the terminal width provider get_term_width().                           *)
(*                                                                         *)
(* Text is modelled as sequences of one-character strings.  The five       *)
(* non-ASCII glyphs of style 2 are written by their Unicode names; each is *)
(* one character, as it is under unicode_literals.  sys.stdout is taken to *)
(* accept every character it is given.                                     *)
(***************************************************************************)
EXTENDS Integers, Sequences, FiniteSets, TLC

VARIABLES
    pc,             \* "new": constructor call pending; "ready": object built;
                    \* "failed": __init__ raised; "term"/"term_done": a bare
                    \* get_term_width() call pending / returned
    call,           \* arguments of the constructor call and what the terminal
                    \* answers while it runs
    interp,         \* the interpreter running the file: "py2" or "py3"
    total,          \* self.total
    total_width,    \* self.total_width
    counter,        \* self.counter
    style,          \* self.style
    show_counters,  \* self.show_counters
    width,          \* self.width
    written,        \* what the most recent operation wrote to sys.stdout
    op,             \* the most recent operation
    upd,            \* locals of the most recent update() call
    ncalls,         \* number of update() calls made since construction
    raised,         \* exception raised by the most recent operation
    ret             \* value returned (or exception raised) by get_term_width()

vars == <<pc, call, interp, total, total_width, counter, style, show_counters,
          width, written, op, upd, ncalls, raised, ret>>

fields == <<total, total_width, counter, style, show_counters, width>>

-----------------------------------------------------------------------------
(* Bounds of the model.                                                    *)

MaxTotal == 11
MaxWidth == 13
MaxOver == 2

(* Values a caller can pass as options["style"].                           *)
StyleArgs == -1 .. 3

-----------------------------------------------------------------------------
(* Text helpers.                                                           *)

CR == "\r"

Digits == <<"0", "1", "2", "3", "4", "5", "6", "7", "8", "9">>

(* s * n for a one-character string s: the empty string when n <= 0.       *)
Rep(s, n) == IF n <= 0 THEN <<>> ELSE [i \in 1 .. n |-> s[1]]

(* c * n for a glyph c that may be the empty string.                       *)
Times(c, n) == IF Len(c) = 0 THEN <<>> ELSE Rep(c, n)

RECURSIVE str(_)
(* str(n) for an integer n >= 0.                                           *)
str(n) == IF n < 10 THEN <<Digits[n + 1]>>
          ELSE str(n \div 10) \o <<Digits[(n % 10) + 1]>>

-----------------------------------------------------------------------------
(* self.chars, indexed by style 0..2.                                      *)

NumStyles == 3

chars_left == <<(<<"[">>), (<<"{">>), (<<>>)>>
chars_right == <<(<<"]">>), (<<"}">>), (<<>>)>>
chars_space == <<(<<" ">>), (<<" ">>), (<<"LIGHT SHADE">>)>>
chars_25 == <<(<<"/">>), (<<".">>), (<<"MEDIUM SHADE">>)>>
chars_50 == <<(<<"-">>), (<<"-">>), (<<"DARK SHADE">>)>>
chars_75 == <<(<<"\\">>), (<<"+">>), (<<"LEFT THREE QUARTERS BLOCK">>)>>
chars_100 == <<(<<"=">>), (<<"*">>), (<<"FULL BLOCK">>)>>

(* self.chars[key][style] for an integer key; <<>> stands for KeyError,    *)
(* which update() turns into the empty half-character.                     *)
HalfKeys == {25, 50, 75, 100}

chars_fill(key, st) ==
    CASE key = 25 -> chars_25[st + 1]
      [] key = 50 -> chars_50[st + 1]
      [] key = 75 -> chars_75[st + 1]
      [] key = 100 -> chars_100[st + 1]
      [] OTHER -> <<>>

-----------------------------------------------------------------------------
(* Arithmetic.  Python floats are modelled by exact rationals plus the     *)
(* rounding error of IEEE-754 doubles where it can change a result: a      *)
(* product that is mathematically an integer may come out just short of    *)
(* it, and a value mathematically halfway between two integers may round   *)
(* either way, unless every operand is exactly representable.              *)

Abs(n) == IF n < 0 THEN -n ELSE n

Sgn(n) == IF n < 0 THEN -1 ELSE IF n > 0 THEN 1 ELSE 0

RECURSIVE GCD(_, _)
GCD(a, b) == IF b = 0 THEN a ELSE GCD(b, a % b)

RECURSIVE IsPow2(_)
IsPow2(n) == IF n <= 1 THEN n = 1 ELSE (n % 2 = 0 /\ IsPow2(n \div 2))

(* counter / total (true division) is an exact double iff the reduced      *)
(* denominator is a power of two.                                          *)
FloatExact(c, t) == IsPow2(t \div GCD(c, t))

(* int(num / den) for den > 0: truncation toward zero.                     *)
PyTrunc(num, den) == Sgn(num) * (Abs(num) \div den)

(* Faulty variant: percent is taken from the counter before its increment. *)
PercentsStale(c, t, w) ==
    LET num == (c - 1) * w
        ip == PyTrunc(num, t)
        fnum == num - ip * t
        just == [ip |-> ip, fnum |-> fnum, den |-> t]
    IN  IF FloatExact(c - 1, t) \/ fnum # 0 \/ num = 0
        THEN {just}
        ELSE {just, [ip |-> ip - Sgn(num), fnum |-> Sgn(num) * t, den |-> t]}

(* The values (counter / total) * w can take.  A value is a record         *)
(* [ip, fnum, den]: ip = int(percent) and fnum / den = percent - ip.       *)
(* fnum = +-den stands for a fractional part just short of +-1.            *)
Percents(c, t, w) ==
    LET num == c * w
        ip == PyTrunc(num, t)
        fnum == num - ip * t
        just == [ip |-> ip, fnum |-> fnum, den |-> t]
    IN  IF FloatExact(c, t) \/ fnum # 0 \/ num = 0
        THEN {just}
        ELSE {just, [ip |-> ip - Sgn(num), fnum |-> Sgn(num) * t, den |-> t]}

(* The rule round() applies to a value exactly halfway between two         *)
(* integers: Python 3 rounds to the even one, Python 2 away from zero.     *)
HalfRule(py) == IF py = "py3" THEN "even" ELSE "away"

(* The ways the tie can go in update(): the interpreter's rule when        *)
(* percent is exact, either neighbour when it carries a rounding error.    *)
HalfRules(py, c, t) ==
    IF FloatExact(c, t) THEN {HalfRule(py)} ELSE {"away", "toward"}

(* round(num / den) for den > 0, as an integer.                            *)
PyRound(num, den, half) ==
    LET a == Abs(num)
        q == a \div den
        r == a % den
        up == IF 2 * r > den THEN TRUE
              ELSE IF 2 * r < den THEN FALSE
              ELSE IF half = "away" THEN TRUE
              ELSE IF half = "toward" THEN FALSE
              ELSE q % 2 = 1
    IN  Sgn(num) * (IF up THEN q + 1 ELSE q)

(* rounded(number, round_to):                                              *)
(*   int(round(((number - int(number)) * 100) / round_to) * round_to)      *)
rounded(number, round_to, half) ==
    PyRound(number.fnum * 100, number.den * round_to, half) * round_to

-----------------------------------------------------------------------------
(* get_term_width().  A terminal is a record of what each source answers:  *)
(*   ioctl: what ioctl_try(0), ioctl_try(1), ioctl_try(2) return, each     *)
(*          <<>> (None) or <<rows, columns>>;                              *)
(*   ctty:  whether os.open(os.ctermid()) succeeds and what ioctl_try      *)
(*          returns on it;                                                 *)
(*   LINES, COLUMNS: the environment variables, {} when unset, else {text}.*)

DefaultColumns == 80

IsDigit(ch) == \E d \in 1 .. 10 : Digits[d] = ch

DigitOf(ch) == (CHOOSE d \in 1 .. 10 : Digits[d] = ch) - 1

RECURSIVE DigitsVal(_)
DigitsVal(s) == IF Len(s) = 0 THEN 0
                ELSE 10 * DigitsVal(SubSeq(s, 1, Len(s) - 1)) + DigitOf(s[Len(s)])

(* int(s) for a text s: [exc, val].                                        *)
PyInt(s) ==
    LET signed == Len(s) > 0 /\ s[1] \in {"-", "+"}
        body == IF signed THEN Tail(s) ELSE s
        ok == Len(body) > 0 /\ \A i \in 1 .. Len(body) : IsDigit(body[i])
    IN  IF ~ok THEN [exc |-> "ValueError", val |-> 0]
        ELSE [exc |-> "none",
              val |-> IF signed /\ s[1] = "-" THEN -DigitsVal(body)
                      ELSE DigitsVal(body)]

(* ioctl_try(0) or ioctl_try(1) or ioctl_try(2): a tuple is true whatever  *)
(* it holds, None is false.                                                *)
FirstIoctl(t) ==
    IF t.ioctl[1] # <<>> THEN t.ioctl[1]
    ELSE IF t.ioctl[2] # <<>> THEN t.ioctl[2]
    ELSE t.ioctl[3]

(* The window size the controlling terminal gives, if it opens.            *)
CttyIoctl(t) == IF t.ctty.opens THEN t.ctty.ioctl ELSE <<>>

get_term_width(t) ==
    LET first == FirstIoctl(t)
        termsize == IF first # <<>> THEN first ELSE CttyIoctl(t)
    IN  IF termsize # <<>>
        THEN [exc |-> "none", val |-> termsize[2]]
        ELSE IF t.LINES = {} \/ t.COLUMNS = {}
             THEN [exc |-> "none", val |-> DefaultColumns]
             ELSE PyInt(CHOOSE s \in t.COLUMNS : TRUE)

-----------------------------------------------------------------------------
(* Inputs.                                                                 *)

None == <<>>

Tuple(rows, columns) == <<rows, columns>>

Text80 == <<"8", "0">>
Text12 == <<"1", "2">>
Text0 == <<"0">>
TextNeg == <<"-", "5">>
TextWord == <<"a", "b", "c">>
TextEmpty == <<>>

(* What one window-size query can answer.                                  *)
IoctlOutcomes == {None, Tuple(0, 0), Tuple(24, 12)}

(* Every combination of answers of the sources of get_term_width().        *)
Terminals ==
    [ioctl : IoctlOutcomes \X IoctlOutcomes \X IoctlOutcomes,
     ctty : [opens : BOOLEAN, ioctl : IoctlOutcomes],
     LINES : {{}, {Text12}},
     COLUMNS : {{}, {Text80}, {Text12}, {Text0}, {TextNeg}, {TextWord},
                {TextEmpty}}]

(* No terminal at all and an empty environment.                            *)
NoTerminal ==
    [ioctl |-> <<None, None, None>>, ctty |-> [opens |-> FALSE, ioctl |-> None],
     LINES |-> {}, COLUMNS |-> {}]

(* The terminals a constructor call is tried with: none, a 12-column       *)
(* window on stdout, and none with COLUMNS set to a word.                  *)
ConstructorTerminals ==
    {NoTerminal,
     [NoTerminal EXCEPT !.ioctl = <<None, Tuple(24, 12), None>>],
     [NoTerminal EXCEPT !.LINES = {Text12}, !.COLUMNS = {TextWord}]}

(* The options argument: given = FALSE is options=None; a key that is      *)
(* missing from the dictionary is the empty set.                           *)
NoOptions == [given |-> FALSE, width |-> {}, style |-> {}, show_counters |-> {}]

Optional(S) == {{}} \cup {{x} : x \in S}

OptionsArgs ==
    {NoOptions} \cup
    [given : {TRUE}, width : Optional(0 .. MaxWidth), style : Optional(StyleArgs),
     show_counters : Optional(BOOLEAN)]

NoCall == [total_updates |-> 0, options |-> NoOptions, tty |-> NoTerminal]

NoUpdate ==
    [counter_diff |-> 0, percent |-> [ip |-> 0, fnum |-> 0, den |-> 1],
     round_to |-> 0, key |-> 0, halfchar |-> <<>>, spaces |-> 0]

NoReturn == [exc |-> "none", val |-> 0]

(* The fields before __init__ has run.                                     *)
Unbuilt ==
    /\ total = 0
    /\ total_width = 0
    /\ counter = 0
    /\ style = 0
    /\ show_counters = TRUE
    /\ width = 0
    /\ written = <<>>
    /\ op = "none"
    /\ upd = NoUpdate
    /\ ncalls = 0
    /\ raised = "none"
    /\ ret = NoReturn

Init ==
    /\ pc = "new"
    /\ call \in [total_updates : 0 .. MaxTotal, options : OptionsArgs,
                 tty : ConstructorTerminals]
    /\ interp \in {"py2", "py3"}
    /\ Unbuilt

-----------------------------------------------------------------------------
(* ProgressBar.__init__(total_updates, options)                            *)

(* options['width'] or get_term_width(), with KeyError and TypeError       *)
(* falling back to get_term_width(): [exc, val].                           *)
InitTotalWidth(c) ==
    IF c.options.width = {} \/ c.options.width = {0}
    THEN get_term_width(c.tty)
    ELSE [exc |-> "none", val |-> CHOOSE w \in c.options.width : TRUE]

(* Faulty variant: a style past the table is clamped to the last style     *)
(* instead of reset to 0.                                                  *)
InitStyleClamped(options) ==
    IF options.style = {} THEN 0
    ELSE LET s == CHOOSE x \in options.style : TRUE
         IN  IF s < 0 THEN 0 ELSE IF s >= NumStyles THEN NumStyles - 1 ELSE s

InitStyle(options) ==
    IF options.style = {} THEN 0
    ELSE LET s == CHOOSE x \in options.style : TRUE
         IN  IF s < 0 \/ s >= NumStyles THEN 0 ELSE s

InitShowCounters(options) ==
    IF options.show_counters = {} THEN TRUE
    ELSE CHOOSE b \in options.show_counters : TRUE

InitWidth(tot, tw, st, show) ==
    IF show
    THEN tw - ((Len(str(tot)) * 2)
               + Len(chars_left[st + 1])
               + Len(chars_right[st + 1])
               + 2)
    ELSE tw - (Len(chars_left[st + 1]) + Len(chars_right[st + 1]))

ProgressBar ==
    /\ pc = "new"
    /\ LET tw == InitTotalWidth(call)
           st == InitStyle(call.options)
           show == InitShowCounters(call.options)
       IN  IF tw.exc # "none"
           THEN /\ pc' = "failed"
                /\ raised' = tw.exc
                /\ UNCHANGED <<fields>>
           ELSE /\ pc' = "ready"
                /\ raised' = "none"
                /\ total' = call.total_updates
                /\ total_width' = tw.val
                /\ counter' = 0
                /\ style' = st
                /\ show_counters' = show
                /\ width' = InitWidth(call.total_updates, tw.val, st, show)
    /\ UNCHANGED <<call, interp, written, op, upd, ncalls, ret>>

-----------------------------------------------------------------------------
(* ProgressBar.setup()                                                     *)

(* " {count}/{total}"                                                      *)
Counters(count, tot) == <<" ">> \o str(count) \o <<"/">> \o str(tot)

(* counter_diff = len(str(self.total)) - len(str(self.counter))            *)
CounterDiff(tot, cnt) == Len(str(tot)) - Len(str(cnt))

(* Faulty variant: the empty bar is not padded for a counter with fewer    *)
(* digits than total.                                                      *)
SetupLineNoPad ==
    IF show_counters
    THEN chars_left[style + 1]
         \o Times(chars_space[style + 1], width)
         \o chars_right[style + 1]
         \o Counters(counter, total)
    ELSE chars_left[style + 1]
         \o Times(chars_space[style + 1], width)
         \o chars_right[style + 1]

SetupLine ==
    IF show_counters
    THEN LET counter_diff == CounterDiff(total, counter)
             spaces == width + counter_diff
         IN  chars_left[style + 1]
             \o Times(chars_space[style + 1], spaces)
             \o chars_right[style + 1]
             \o Counters(counter, total)
    ELSE chars_left[style + 1]
         \o Times(chars_space[style + 1], width)
         \o chars_right[style + 1]

setup ==
    /\ pc = "ready"
    /\ written' = SetupLine
    /\ op' = "setup"
    /\ raised' = "none"
    /\ UNCHANGED <<pc, call, interp, fields, upd, ncalls, ret>>

-----------------------------------------------------------------------------
(* ProgressBar.clear()                                                     *)

(* Faulty variant: the line is blanked over the bar's width only.          *)
ClearTextBarWidth == <<CR>> \o Rep(<<" ">>, width) \o <<CR>>

ClearText == <<CR>> \o Rep(<<" ">>, total_width) \o <<CR>>

(* Faulty variant: clear() also rewinds the counter.                       *)
clear_rewinds ==
    /\ pc = "ready"
    /\ written' = ClearText
    /\ op' = "clear"
    /\ raised' = "none"
    /\ counter' = 0
    /\ UNCHANGED <<pc, call, interp, total, total_width, style, show_counters,
                   width, upd, ncalls, ret>>

clear ==
    /\ pc = "ready"
    /\ written' = ClearText
    /\ op' = "clear"
    /\ raised' = "none"
    /\ UNCHANGED <<pc, call, interp, fields, upd, ncalls, ret>>

-----------------------------------------------------------------------------
(* ProgressBar.update()                                                    *)

(* Faulty variant: the threshold of the fine rounding is off by one.       *)
RoundToInclusive(tot, w) == IF ~(tot >= w * 4) THEN 50 ELSE 25

(* The step of the half-character rounding.                                *)
RoundTo(tot, w) == IF ~(tot > w * 4) THEN 50 ELSE 25

(* Faulty variant: update() refuses to run past total.                     *)
UpdateRaisesPastTotal(cnt) ==
    IF total = 0 THEN "ZeroDivisionError"
    ELSE IF cnt > total THEN "ValueError"
    ELSE "none"

(* The exception update() raises before it writes anything: the division   *)
(* counter / total is the only step that can fail.                         *)
UpdateRaises(cnt) == IF total = 0 THEN "ZeroDivisionError" ELSE "none"

(* The number of empty-space glyphs asked for after the half-character.    *)
UpdateSpaces(show, w, counter_diff, ip, halfchar) ==
    IF show
    THEN w + counter_diff - ip - Len(halfchar)
    ELSE w - ip - Len(halfchar)

(* The two writes of update(), given its locals.                           *)
UpdateLine(cnt, l) ==
    <<CR>>
    \o chars_left[style + 1]
    \o Times(chars_100[style + 1], l.percent.ip)
    \o l.halfchar
    \o Times(chars_space[style + 1], l.spaces)
    \o chars_right[style + 1]
    \o (IF show_counters THEN Counters(cnt, total) ELSE <<>>)

(* The locals of update() for one outcome of the float arithmetic.         *)
UpdateLocals(cnt, percent, half) ==
    LET counter_diff == CounterDiff(total, cnt)
        round_to == RoundTo(total, width)
        key == rounded(percent, round_to, half)
        halfchar == chars_fill(key, style)
    IN  [counter_diff |-> counter_diff, percent |-> percent,
         round_to |-> round_to, key |-> key, halfchar |-> halfchar,
         spaces |-> UpdateSpaces(show_counters, width, counter_diff,
                                 percent.ip, halfchar)]

update ==
    /\ pc = "ready"
    /\ counter < total + MaxOver
    /\ counter' = counter + 1
    /\ ncalls' = ncalls + 1
    /\ op' = "update"
    /\ IF UpdateRaises(counter + 1) # "none"
       THEN /\ raised' = UpdateRaises(counter + 1)
            /\ written' = <<>>
            /\ upd' = NoUpdate
       ELSE LET cnt == counter + 1
                counter_diff == CounterDiff(total, cnt)
            IN  \E percent \in Percents(cnt, total, width + counter_diff) :
                \E half \in HalfRules(interp, cnt, total) :
                    /\ raised' = "none"
                    /\ upd' = UpdateLocals(cnt, percent, half)
                    /\ written' = UpdateLine(cnt, upd')
    /\ UNCHANGED <<pc, call, interp, total, total_width, style, show_counters,
                   width, ret>>

-----------------------------------------------------------------------------
(* The renderer: one constructor call, then any interleaving of setup(),   *)
(* update() and clear().                                                   *)

Next == ProgressBar \/ setup \/ update \/ clear

Spec == Init /\ [][Next]_vars

-----------------------------------------------------------------------------
(* The terminal width provider on its own: one call of get_term_width()    *)
(* against every terminal.                                                 *)

InitTerm ==
    /\ pc = "term"
    /\ call \in [total_updates : {0}, options : {NoOptions}, tty : Terminals]
    /\ interp \in {"py2", "py3"}
    /\ Unbuilt

TermWidth ==
    /\ pc = "term"
    /\ pc' = "term_done"
    /\ ret' = get_term_width(call.tty)
    /\ raised' = ret'.exc
    /\ UNCHANGED <<call, interp, fields, written, op, upd, ncalls>>

NextTerm == TermWidth

SpecTerm == InitTerm /\ [][NextTerm]_vars

-----------------------------------------------------------------------------
(* Vocabulary of the properties.                                           *)

(* The renderer of the data model: built, total >= 1, barWidth positive.   *)
WellFormed == pc = "ready" /\ total >= 1 /\ width >= 1

(* The most recent operation was an update() that returned normally.       *)
Updated == op = "update" /\ raised = "none"

(* Number of characters of line that are the style's 100%-fill glyph.      *)
FillGlyphs(line, st) ==
    Cardinality({i \in 1 .. Len(line) : <<line[i]>> = chars_100[st + 1]})

(* Number of 100%-fill glyphs an update() with locals u writes.            *)
FillWritten(u) ==
    (IF u.percent.ip > 0 THEN u.percent.ip ELSE 0)
    + (IF u.key = 100 THEN 1 ELSE 0)

(* Width of the decorations of a line: caps and, if shown, " count/total". *)
Decoration(count) ==
    Len(chars_left[style + 1]) + Len(chars_right[style + 1])
    + (IF show_counters THEN 2 + Len(str(count)) + Len(str(total)) ELSE 0)

-----------------------------------------------------------------------------
(* C1. Constant line width: for every total >= 1 and positive barWidth,    *)
(* every style and both showCounters settings, the line written by the     *)
(* k-th update(), 1 <= k <= total, without its leading carriage return,    *)
(* has exactly displayWidth characters.                                    *)
C1_ConstantLineWidth ==
    (WellFormed /\ Updated /\ counter <= total)
        => Len(written) - 1 = total_width

(* C2. Monotonic fill: over the update() calls that take counter from 1 to *)
(* total, the number of 100%-fill glyphs each update() writes is at least  *)
(* the number the previous update() wrote.                                 *)
C2_MonotonicFill ==
    [][(WellFormed /\ counter >= 1 /\ counter' = counter + 1
        /\ counter' <= total /\ raised' = "none")
          => FillWritten(upd') >= FillWritten(upd)]_vars

(* C3. Full bar at completion: the update() that makes counter equal to    *)
(* total writes exactly barWidth 100%-fill glyphs between the caps, with   *)
(* digitPad 0, an empty half-glyph and no empty-space glyph.               *)
C3_FullBarAtCompletion ==
    (WellFormed /\ Updated /\ counter = total)
        => /\ upd.counter_diff = 0
           /\ upd.percent.ip = width
           /\ upd.halfchar = <<>>
           /\ upd.spaces = 0
           /\ written = <<CR>>
                        \o chars_left[style + 1]
                        \o [i \in 1 .. width |-> chars_100[style + 1][1]]
                        \o chars_right[style + 1]
                        \o (IF show_counters THEN Counters(total, total)
                            ELSE <<>>)

(* A two-digit total reaches completion with counters shown.               *)
C3_Witness ==
    /\ WellFormed /\ Updated /\ counter = total
    /\ total >= 10 /\ show_counters /\ width >= 3

-----------------------------------------------------------------------------
(* C4 as claimed. Empty bar from setup(): every setup(), in whatever state *)
(* the renderer is, writes a line of exactly displayWidth characters in    *)
(* which every position between the caps is the style's empty-space glyph  *)
(* and, when counters are shown, the counter printed in the suffix is 0.   *)
C4_SetupPrintsZero ==
    (WellFormed /\ op = "setup")
        => /\ Len(written) = total_width
           /\ written = chars_left[style + 1]
                        \o [i \in 1 .. total_width - Decoration(0)
                              |-> chars_space[style + 1][1]]
                        \o chars_right[style + 1]
                        \o (IF show_counters THEN Counters(0, total) ELSE <<>>)

(* C4 as amended. Every setup() made while barWidth + digitPad >= 0        *)
(* (barWidth >= 0 with counters hidden) writes a line of exactly           *)
(* displayWidth characters in which every position between the caps is the *)
(* style's empty-space glyph and, when counters are shown, the counter     *)
(* printed in the suffix is the current value of counter.                  *)
C4_SetupEmptyBar ==
    (pc = "ready" /\ op = "setup"
     /\ (IF show_counters
         THEN width + Len(str(total)) - Len(str(counter)) >= 0
         ELSE width >= 0))
        => /\ Len(written) = total_width
           /\ written = chars_left[style + 1]
                        \o [i \in 1 .. total_width - Decoration(counter)
                              |-> chars_space[style + 1][1]]
                        \o chars_right[style + 1]
                        \o (IF show_counters THEN Counters(counter, total)
                            ELSE <<>>)

(* setup() is called on a two-digit total after some updates, while the    *)
(* counter still has one digit.                                            *)
C4_Witness ==
    /\ WellFormed /\ op = "setup" /\ show_counters
    /\ total >= 10 /\ counter \in 1 .. 9

(* C5. Counter bookkeeping: in every reachable state counter equals the    *)
(* number of update() calls made since construction, whatever setup() and  *)
(* clear() calls came between; hence 0 <= counter <= total as long as      *)
(* update() has been called at most total times.                           *)
C5_CounterBookkeeping ==
    pc = "ready"
        => /\ counter = ncalls
           /\ (ncalls <= total => (0 <= counter /\ counter <= total))

(* update(), setup() and clear() have all been called, clear() last.       *)
C5_Witness ==
    /\ pc = "ready" /\ op = "clear" /\ ncalls >= 2
    /\ written = ClearText

(* C6 as claimed. Overshoot is permissive: every update() made after       *)
(* counter has reached total returns normally and writes floor(percent)    *)
(* 100%-fill glyphs, a number strictly greater than barWidth.              *)
C6_OvershootExceedsBarWidth ==
    (WellFormed /\ op = "update" /\ counter > total)
        => /\ raised = "none"
           /\ upd.percent.ip > width

(* C6 as amended. Every update() made after counter has reached total,     *)
(* while barWidth + digitPad >= 0, returns normally and writes             *)
(* floor(percent) 100%-fill glyphs, a number that is at least barWidth +   *)
(* digitPad (digitPad <= 0 there).                                         *)
C6_OvershootPermissive ==
    (pc = "ready" /\ total >= 1 /\ op = "update" /\ counter > total
     /\ width + Len(str(total)) - Len(str(counter)) >= 0)
        => /\ raised = "none"
           /\ upd.counter_diff <= 0
           /\ upd.percent.ip >= width + upd.counter_diff
           /\ FillGlyphs(written, style) >= width + upd.counter_diff

(* An update() past a total of 9: the counter has more digits than total.  *)
C6_Witness ==
    /\ WellFormed /\ Updated /\ counter > total
    /\ upd.counter_diff < 0

(* C7. clear() erases and only erases: in every state clear() writes       *)
(* carriage return, displayWidth spaces, carriage return and leaves every  *)
(* field of the renderer unchanged (so the next update() starts from the   *)
(* same fields as it would have without the clear()).                      *)
C7_ClearErasesOnly ==
    [][(pc = "ready" /\ op' = "clear")
         => /\ written' = [i \in 1 .. total_width + 2
                             |-> IF i = 1 \/ i = total_width + 2
                                 THEN CR ELSE " "]
            /\ raised' = "none"
            /\ UNCHANGED fields]_vars

(* clear() after updates on a style-2 bar with hidden counters.            *)
C7_Witness ==
    /\ pc = "ready" /\ op = "clear" /\ counter >= 1
    /\ style = 2 /\ ~show_counters /\ total_width >= 1

(* C8. Half-glyph selection: in update() the fractional part of percent,   *)
(* scaled to 0..100, is rounded to a nearest multiple of 50 when           *)
(* total <= barWidth * 4 and of 25 otherwise; the half-glyph written is    *)
(* the style's glyph for that value when it is 25, 50, 75 or 100 and the   *)
(* empty string when it is 0; with 50-step rounding the 25 and 75 glyphs   *)
(* never appear; at most one half-glyph character is written.              *)
C8_HalfGlyphSelection ==
    (pc = "ready" /\ total >= 1 /\ Updated)
        => LET step == IF total <= width * 4 THEN 50 ELSE 25
               frac == upd.percent.fnum
               den == upd.percent.den
               key == upd.key
           IN  /\ key % step = 0
               /\ 2 * Abs(100 * frac - key * den) <= step * den
               /\ key = 25 => upd.halfchar = chars_25[style + 1]
               /\ key = 50 => upd.halfchar = chars_50[style + 1]
               /\ key = 75 => upd.halfchar = chars_75[style + 1]
               /\ key = 100 => upd.halfchar = chars_100[style + 1]
               /\ key \notin {25, 50, 75, 100} => upd.halfchar = <<>>
               /\ step = 50 => key \notin {25, 75}
               /\ Len(upd.halfchar) <= 1

(* An update() whose fractional part rounds to 75 under 25-step rounding.  *)
C8_Witness ==
    /\ WellFormed /\ Updated /\ counter <= total
    /\ upd.key = 75 /\ upd.halfchar = chars_75[style + 1]

(* C9. Style fallback: construction never fails on the style option; the   *)
(* renderer's style is the supplied style when it is an integer in 0..2    *)
(* and 0 when the style is absent, the options are absent or the integer   *)
(* is outside [0, 3); style stays in 0..2 in every state thereafter.       *)
C9_StyleFallback ==
    /\ pc = "ready"
         => /\ style \in 0 .. 2
            /\ \A s \in call.options.style :
                 style = (IF s \in {0, 1, 2} THEN s ELSE 0)
            /\ call.options.style = {} => style = 0
    /\ pc = "failed"
         => /\ raised = "ValueError"
            /\ call.options.width \in {{}, {0}}

(* A renderer built with style 3 has been updated with style 0.            *)
C9_Witness ==
    /\ pc = "ready" /\ call.options.style = {3} /\ style = 0
    /\ Updated /\ counter >= 1

(* C10. Terminal width provider never fails: for every combination of      *)
(* outcomes of its sources get_term_width() returns a positive integer     *)
(* without raising, and returns 80 when no source yields a width.          *)
C10_TermWidthNeverFails ==
    pc = "term_done"
        => /\ ret.exc = "none"
           /\ ret.val > 0
           /\ (/\ \A fd \in 1 .. 3 : call.tty.ioctl[fd] = None
               /\ (~call.tty.ctty.opens \/ call.tty.ctty.ioctl = None)
               /\ (call.tty.LINES = {} \/ call.tty.COLUMNS = {}))
                 => ret.val = DefaultColumns

====
